---- MODULE Spec2Model ----
(***************************************************************************)
(* Digital kaleidoscope (src/src/main.c): a render loop thread that asks   *)
(* for a redraw every 100 ms, and the GUI thread that delivers input       *)
(* events to input_callback and serves redraw requests by calling          *)
(* view_callback -> render_pattern.                                        *)
(***************************************************************************)
EXTENDS Integers, Sequences, FiniteSets, TLC

\* Screen dimensions (#define W / #define H).
W == 128
H == 64

\* Widths of the C integer types: uint8_t, and uint32_t kept as two 16-bit
\* limbs <<hi, lo>> (TLC's integers are 32-bit signed).
U8 == 2 ^ 8
Limb == 2 ^ 16

\* ---- bounds of the model -------------------------------------------------
\* Frames rendered in one run of the model.
MaxRenders == 2
\* Largest style value the dispatcher is tried on (6 is the last real style).
MaxStyle == 9
\* rand() streams are the periodic ones of this period over RandVals.
RandPeriod == 2

\* ---- input events ---------------------------------------------------------
Keys == {"Up", "Down", "Left", "Right", "Ok", "Back"}
Types == {"Short", "Long"}

\* Values of rand() % 100 a stream is made of: below every positive
\* threshold, and exactly at the initial threshold.
RandVals == {0, 50}
RandSeqs == [0 .. (RandPeriod - 1) -> RandVals]

\* Pictures standing for the output of the generators whose pixel decisions
\* are single-precision float expressions: some pixels of the surface, not
\* mirror-symmetric.
Sketches == {{<<0, 0>>, <<W \div 2, H \div 2>>, <<W - 1, H - 1>>}}

NoEvent == [key |-> "none", type |-> "none", style |-> 0, density |-> 0,
            running |-> TRUE, pending |-> FALSE]

VARIABLES
  app_running,    \* static bool app_running
  dot_threshold,  \* static uint8_t dot_threshold
  style,          \* static uint8_t style
  frame,          \* static uint32_t frame, as <<hi, lo>>
  pc,             \* position of the thread running digital_kaleidoscope_app
  redraw_pending, \* view_port_update was called and the GUI has not drawn yet
  canvas,         \* lit pixels of the surface handed to the draw callback
  last_gen,       \* generator render_pattern ran last
  rays,           \* render_style6's local `rays` in the last frame (0: not run)
  last_event,     \* the event input_callback handled last, and what it found
  renders,        \* number of render_pattern invocations so far
  ticks_after_back \* periodic ticks executed since app_running went false
                  \* (2: two or more)

vars == <<app_running, dot_threshold, style, frame, pc, redraw_pending, canvas,
          last_gen, rays, last_event, renders, ticks_after_back>>

\* ---- helpers ---------------------------------------------------------------
\* clamp_u8 without its upper test
clamp_u8_lo(v, lo, hi) == IF v < lo THEN lo ELSE v

clamp_u8(v, lo, hi) == IF v < lo THEN lo ELSE IF v > hi THEN hi ELSE v

\* frame++ on a uint32_t
inc_u32(f) ==
  IF f[2] = Limb - 1 THEN <<(f[1] + 1) % Limb, 0>> ELSE <<f[1], f[2] + 1>>

\* ---- pattern library -------------------------------------------------------
\* canvas_clear(canvas): no pixel stays lit
canvas_clear(cv) == {}

\* dots_drawn mirroring about W instead of W-1
dots_drawn_w(thr, seq) ==
  LET hit == {p \in (0 .. (W \div 2 - 1)) \X (0 .. (H - 1)) :
                 seq[(p[1] * H + p[2]) % RandPeriod] < thr}
  IN  hit \cup {<<W - p[1], p[2]>> : p \in hit}

\* The pixels the loops of render_style0 draw: for x < W/2, y < H, in that
\* order, one rand() draw each; a hit draws (x, y) and (W-1-x, y).  seq is the
\* stream of rand() % 100 values, the draw for (x, y) being the (x*H + y)-th.
dots_drawn(thr, seq) ==
  LET hit == {p \in (0 .. (W \div 2 - 1)) \X (0 .. (H - 1)) :
                 seq[(p[1] * H + p[2]) % RandPeriod] < thr}
  IN  hit \cup {<<W - 1 - p[1], p[2]>> : p \in hit}

\* dots_drawn tabulated over the thresholds 0..100.
DotsDrawn == [thr \in 0 .. 100 |-> [seq \in RandSeqs |-> dots_drawn(thr, seq)]]

\* The same table; the comparison makes TLC evaluate it once, and keep it.
DotsTable == IF DotsDrawn = DotsDrawn THEN DotsDrawn ELSE DotsDrawn

\* render_style0 on the surface cv
render_style0(cv, thr, seq) ==
  canvas_clear(cv) \cup
    (IF thr \in DOMAIN DotsTable THEN DotsTable[thr][seq] ELSE dots_drawn(thr, seq))

\* The generators deciding pixels by float expressions (render_style1 ..
\* render_style6): canvas_clear, then some pixels.
render_sketch(cv, sketch) == canvas_clear(cv) \cup sketch

\* render_style6: int rays = 6 + (dot_threshold / 5)
sunburst_rays(d) == 6 + (d \div 5)

\* ---- dispatcher ------------------------------------------------------------
\* a switch calling render_style<N> for case N
GeneratorByNumber(s) ==
  CASE s = 0 -> "dots"
    [] s = 1 -> "arcs"
    [] s = 2 -> "star"
    [] s = 3 -> "noise"
    [] s = 4 -> "spiral"
    [] s = 5 -> "checkerboard"
    [] s = 6 -> "sunburst"
    [] OTHER -> "dots"

\* switch(style) of render_pattern: the generator bound to a style value
Generator(s) ==
  CASE s = 0 -> "star"
    [] s = 1 -> "arcs"
    [] s = 2 -> "noise"
    [] s = 3 -> "dots"
    [] s = 4 -> "spiral"
    [] s = 5 -> "checkerboard"
    [] s = 6 -> "sunburst"
    [] OTHER -> "dots"

\* frame++ both in the dispatcher and in the generator
render_frame_twice(f) == inc_u32(inc_u32(f))

\* frame after render_pattern's frame++
render_frame(f) == inc_u32(f)

render_pattern ==
  /\ frame' = render_frame(frame)
  /\ renders' = renders + 1
  /\ last_gen' = Generator(style)
  /\ \/ /\ Generator(style) = "dots"
        /\ \E seq \in RandSeqs : canvas' = render_style0(canvas, dot_threshold, seq)
        /\ rays' = 0
     \/ /\ Generator(style) = "sunburst"
        /\ \E sketch \in Sketches : canvas' = render_sketch(canvas, sketch)
        /\ rays' = sunburst_rays(dot_threshold)
     \/ /\ Generator(style) \notin {"dots", "sunburst"}
        /\ \E sketch \in Sketches : canvas' = render_sketch(canvas, sketch)
        /\ rays' = 0

\* The GUI thread serves a redraw request: view_callback -> render_pattern.
view_callback ==
  /\ redraw_pending
  /\ pc # "done"
  /\ renders < MaxRenders
  /\ redraw_pending' = FALSE
  /\ render_pattern
  /\ UNCHANGED <<app_running, dot_threshold, style, pc, last_event, ticks_after_back>>

\* ---- input state machine -----------------------------------------------------
\* the increment without the wrap at 6
style_right_nowrap(s) == (s + 1) % U8
\* the addition without the clamp
density_up_unclamped(d) == (d + 10) % U8
\* a handler acting on every press type
ActionableAny(type) == TRUE
\* a redraw requested for the style keys only
do_redraw_style(arm) == arm \in {"Left", "Right"}

style_left(s) == IF s = 0 THEN 6 ELSE (s - 1) % U8
style_right(s) == IF s = 6 THEN 0 ELSE (s + 1) % U8
density_up(d) == clamp_u8((d + 10) % U8, 0, 100)
density_down(d) == IF d < 10 THEN 0 ELSE (d - 10) % U8

\* if(event->type != InputTypeShort) return;
Actionable(type) == type = "Short"

\* the arm of switch(event->key) an actionable event takes
Arm(key) == IF key \in {"Back", "Left", "Right", "Up", "Down"} THEN key ELSE "default"

\* do_redraw at the end of the switch
do_redraw(arm) == arm \in {"Left", "Right", "Up", "Down"}

input_callback(key, type) ==
  /\ pc # "done"
  /\ UNCHANGED <<frame, pc, canvas, last_gen, rays, renders, ticks_after_back>>
  /\ IF ~Actionable(type)
       THEN UNCHANGED <<app_running, dot_threshold, style, redraw_pending>>
       ELSE /\ app_running' = IF Arm(key) = "Back" THEN FALSE ELSE app_running
            /\ style' = CASE Arm(key) = "Left" -> style_left(style)
                          [] Arm(key) = "Right" -> style_right(style)
                          [] OTHER -> style
            /\ dot_threshold' = CASE Arm(key) = "Up" -> density_up(dot_threshold)
                                  [] Arm(key) = "Down" -> density_down(dot_threshold)
                                  [] OTHER -> dot_threshold
            /\ redraw_pending' = IF do_redraw(Arm(key)) THEN TRUE ELSE redraw_pending

\* The host delivers an event of the viewport to input_callback.
Input ==
  \E key \in Keys, type \in Types :
    /\ input_callback(key, type)
    /\ UNCHANGED last_event

\* The same, keeping the event and the parameters it found in last_event.
InputLogged ==
  \E key \in Keys, type \in Types :
    /\ input_callback(key, type)
    /\ last_event' = [key |-> key, type |-> type, style |-> style,
                      density |-> dot_threshold, running |-> app_running,
                      pending |-> redraw_pending]

\* ---- render loop ---------------------------------------------------------------
\* while(true)
loop_forever(running) == TRUE

\* while(app_running)
loop_continues(running) == running

MainLoopTest ==
  /\ pc = "loop"
  /\ pc' = IF loop_continues(app_running) THEN "delay" ELSE "cleanup"
  /\ UNCHANGED <<app_running, dot_threshold, style, frame, redraw_pending, canvas,
                 last_gen, rays, last_event, renders, ticks_after_back>>

\* furi_delay_ms(100); view_port_update(viewport);
MainTick ==
  /\ pc = "delay"
  /\ redraw_pending' = TRUE
  /\ ticks_after_back' = IF app_running THEN ticks_after_back
                          ELSE IF ticks_after_back = 0 THEN 1 ELSE 2
  /\ pc' = "loop"
  /\ UNCHANGED <<app_running, dot_threshold, style, frame, canvas, last_gen, rays,
                 last_event, renders>>

\* gui_remove_view_port ... return 0
MainCleanup ==
  /\ pc = "cleanup"
  /\ pc' = "done"
  /\ UNCHANGED <<app_running, dot_threshold, style, frame, redraw_pending, canvas,
                 last_gen, rays, last_event, renders, ticks_after_back>>

\* ---- the program ---------------------------------------------------------------
Init ==
  /\ app_running = TRUE
  /\ dot_threshold = 50
  /\ style = 0
  /\ frame = <<0, 0>>
  /\ pc = "loop"
  /\ redraw_pending = FALSE
  /\ canvas = {}
  /\ last_gen = "none"
  /\ rays = 0
  /\ last_event = NoEvent
  /\ renders = 0
  /\ ticks_after_back = 0

Next == Input \/ view_callback \/ MainLoopTest \/ MainTick \/ MainCleanup

Spec == Init /\ [][Next]_vars

\* The loop thread keeps running.
MainThread == MainLoopTest \/ MainTick \/ MainCleanup
FairSpec == Spec /\ WF_vars(MainThread)

\* ---- the input handler on any parameter values ---------------------------------
InputInit ==
  /\ app_running \in BOOLEAN
  /\ dot_threshold \in 0 .. 100
  /\ style \in 0 .. 6
  /\ frame = <<0, 0>>
  /\ pc = "delay"
  /\ redraw_pending \in BOOLEAN
  /\ canvas = {}
  /\ last_gen = "none"
  /\ rays = 0
  /\ last_event = NoEvent
  /\ renders = 0
  /\ ticks_after_back = 0

InputSpec == InputInit /\ [][InputLogged]_vars

\* ---- the dispatcher on any style, threshold and frame values -------------------
FrameInits == {<<0, 0>>, <<0, Limb - 1>>, <<Limb - 1, Limb - 1>>}

RenderInit ==
  /\ app_running = TRUE
  /\ dot_threshold \in 0 .. 100
  /\ style \in 0 .. MaxStyle
  /\ frame \in FrameInits
  /\ pc = "delay"
  /\ redraw_pending = TRUE
  /\ canvas \in {{}} \cup Sketches
  /\ last_gen = "none"
  /\ rays = 0
  /\ last_event = NoEvent
  /\ renders = 0
  /\ ticks_after_back = 0

RenderNext == view_callback \/ MainTick

RenderSpec == RenderInit /\ [][RenderNext]_vars

\* ---- properties ------------------------------------------------------------------
Grid == (0 .. (W - 1)) \X (0 .. (H - 1))
Min(a, b) == IF a < b THEN a ELSE b
Max(a, b) == IF a > b THEN a ELSE b

\* g is f + 1 modulo 2^32, on the limbs <<hi, lo>>
PlusOne32(f, g) ==
  \/ g[1] = f[1] /\ g[2] - f[2] = 1
  \/ f[2] = Limb - 1 /\ g[2] = 0 /\ (g[1] - f[1]) % Limb = 1

ShortPress(key) == last_event.type = "Short" /\ last_event.key = key

\* C1: from frame=0, style=0, density=50, under any interleaving of input events
\* and renders, style stays in 0..6 and density in 0..100.
C1_ParamsInRange == style \in 0 .. 6 /\ dot_threshold \in 0 .. 100

\* Both parameters at an end of their range, after renders and a Back.
C1_Witness ==
  style = 6 /\ dot_threshold = 100 /\ renders = MaxRenders /\ ~app_running

\* C2: every render_pattern invocation adds exactly 1 to frame (mod 2^32), no
\* other step changes frame, and after N invocations frame = N.
C2_Step ==
  \/ renders' = renders + 1 /\ PlusOne32(frame, frame')
  \/ renders' = renders /\ frame' = frame
C2_FrameCountsRenders == [](frame = <<0, renders>>) /\ [][C2_Step]_vars

\* Two frames rendered, with key presses in between.
C2_Witness ==
  renders = 2 /\ frame = <<0, 2>> /\ style = 3 /\ dot_threshold = 30

\* C3: once Back is handled the running flag stays false, the loop executes at
\* most one further tick, and then exits and cleans up.
C3_Step ==
  /\ input_callback("Back", "Short") => ~app_running'
  /\ ~app_running => ~app_running'
  /\ ticks_after_back' <= 1
C3_BackHalts == [][C3_Step]_vars /\ (~app_running ~> pc = "done")

\* Back arrived during the delay: one more tick, then the loop has exited.
C3_Witness == ~app_running /\ ticks_after_back = 1 /\ pc = "done"

\* C4: Right sets style to (s+1) mod 7 and Left to (s-1) mod 7, leaving density
\* and the running flag alone; they are inverse and have period 7.
RECURSIVE RightTimes(_, _)
RightTimes(n, s) == IF n = 0 THEN s ELSE RightTimes(n - 1, style_right(s))
RECURSIVE LeftTimes(_, _)
LeftTimes(n, s) == IF n = 0 THEN s ELSE LeftTimes(n - 1, style_left(s))
C4_StyleCycles ==
  /\ ShortPress("Right") =>
       /\ style = (last_event.style + 1) % 7
       /\ dot_threshold = last_event.density
       /\ app_running = last_event.running
  /\ ShortPress("Left") =>
       /\ style = (last_event.style + 6) % 7
       /\ dot_threshold = last_event.density
       /\ app_running = last_event.running
  /\ style_left(style_right(style)) = style
  /\ style_right(style_left(style)) = style
  /\ RightTimes(7, style) = style
  /\ LeftTimes(7, style) = style

\* Right pressed at style 6.
C4_Witness == ShortPress("Right") /\ last_event.style = 6 /\ style = 0

\* C5: Up sets density to min(d+10, 100) and Down to max(d-10, 0), for every d
\* in 0..100, leaving style and the running flag alone.
C5_DensityClamps ==
  /\ ShortPress("Up") =>
       /\ dot_threshold = Min(last_event.density + 10, 100)
       /\ style = last_event.style
       /\ app_running = last_event.running
  /\ ShortPress("Down") =>
       /\ dot_threshold = Max(last_event.density - 10, 0)
       /\ style = last_event.style
       /\ app_running = last_event.running

\* Up pressed at density 95.
C5_Witness == ShortPress("Up") /\ last_event.density = 95 /\ dot_threshold = 100

\* C6: an event that is no short press, and a short press of a key other than
\* the four arrows and Back, changes nothing and requests no redraw.
C6_OthersIgnored ==
  (last_event.type = "Long" \/ ShortPress("Ok")) =>
     /\ style = last_event.style
     /\ dot_threshold = last_event.density
     /\ app_running = last_event.running
     /\ redraw_pending = last_event.pending
     /\ frame = <<0, 0>>

\* A long press of Back while running, with no redraw pending.
C6_Witness ==
  /\ last_event.type = "Long" /\ last_event.key = "Back"
  /\ app_running /\ ~redraw_pending

Catalog == <<"star", "arcs", "noise", "dots", "spiral", "checkerboard", "sunburst">>
C8_Step ==
  /\ renders' # renders =>
       /\ renders' = renders + 1
       /\ PlusOne32(frame, frame')
       /\ last_gen' = IF style \in 0 .. 6 THEN Catalog[style + 1] ELSE "dots"
  /\ Cardinality({Generator(s) : s \in 0 .. 6}) = 7
C8_Dispatch == [][C8_Step]_vars

\* Style 9 dispatched at frame 2^32 - 1.
C8_Witness ==
  style = 9 /\ last_gen = "dots" /\ renders = 1 /\ frame = <<0, 0>>

\* C9: after every call of the mirrored-dots generator the surface is
\* horizontally symmetric and every lit pixel is inside the W x H grid.
C9_Mirrored ==
  last_gen = "dots" =>
     /\ canvas \subseteq Grid
     /\ \A x \in 0 .. (W \div 2 - 1), y \in 0 .. (H - 1) :
          (<<x, y>> \in canvas) <=> (<<W - 1 - x, y>> \in canvas)

\* Mirrored dots drawn twice, some pixels lit and some not.
C9_Witness ==
  /\ last_gen = "dots" /\ renders = 2
  /\ <<0, 0>> \in canvas /\ <<W - 1, 0>> \in canvas
  /\ <<0, 1>> \notin canvas /\ <<W - 1, 1>> \notin canvas

\* C10: the sunburst ray count is 6 + density/5 and lies between 6 and 24 for
\* every density the input state machine reaches.
C10_Step ==
  (renders' # renders /\ last_gen' = "sunburst") =>
     /\ rays' = 6 + (dot_threshold \div 5)
     /\ rays' \in 6 .. 24
C10_RaysInRange == [][C10_Step]_vars

====
